---- MODULE Spec2Model ----
(***************************************************************************)
(* The landing-submission pipeline of sample-golang: the webhook handler,  *)
(* ProcessLandingSubmission / processSubmission, and the delayed follow-up *)
(* task scheduleFollowup, against the three remote facades (TextMagic      *)
(* contact directory, Airtable record store, Short.io link shortener).     *)
(*                                                                         *)
(* Go strings that the code inspects character by character (phone         *)
(* numbers, contact ids) are sequences of one-character strings; the zero  *)
(* value "" is <<>>.  Every remote call is one atomic step that either     *)
(* succeeds or returns an error.                                           *)
(*                                                                         *)
(* The OTP server of main.go (POST /send-otp with its per-phone cooldown)  *)
(* is a program of its own: it has its own variables and its own           *)
(* specification, SpecOTP, and stands still in the others.                 *)
(*                                                                         *)
(* So have the TextMagic client taken step by step (search, create,        *)
(* second search; SpecContacts) and the VerificationService of             *)
(* pkg/services/verification.go with its pending map, its mutex and its    *)
(* cleanup goroutines (SpecVerify).                                        *)
(***************************************************************************)
EXTENDS Integers, Sequences, FiniteSets, TLC

\* Number of webhook requests of one run.
MaxSubs == 2
Subs == 1..MaxSubs

\* time.Sleep(15 * time.Minute), in minutes.
FollowupDelay == 15

\* Granularity of the clock: minutes that pass in one step of time.
TickMinutes == 5

\* Number of /send-otp requests of one run of the OTP server.
MaxOtpReqs == 2
OtpReqs == 1..MaxOtpReqs

\* Resolution of the OTP server's clock, and the minutes one run lasts.
TicksPerSecond == 2
MaxMinutes == 4

\* 3*time.Minute, in minutes and in ticks.
CooldownMinutes == 3
Cooldown == CooldownMinutes * 60 * TicksPerSecond

\* The duration by which the clock moves: a tick less than a minute.
ClockStep == 60 * TicksPerSecond - 1

OtpPhones == {"+18025550100", "+18025550101"}

\* Calls of the VerificationService in one run, each one either an
\* InitiateVerification or a VerifyCode.
MaxCalls == 3
Calls == 1..MaxCalls

\* timeout: 10 * time.Minute, in minutes.
Timeout == 10

\* The minutes one run of the VerificationService lasts.
Horizon == Timeout + TickMinutes

\* The phones of the VerificationService, and the codes a caller may hand
\* to VerifyCode: the one the provider texted and another one.
VerifyPhones == {"+18025550100", "+18025550101"}
SentCode == "271828"
Codes == {SentCode, "000000"}

\* Number of calls of the TextMagic client's GetOrCreateContact in one run.
MaxLookups == 3
Lookups == 1..MaxLookups

\* A /send-otp body: one BindJSON rejects, or a RegistrationRequest.
OtpBodies ==
    [json : {TRUE}, phoneNumber : OtpPhones \cup {""}]
        \cup {[json |-> FALSE, phoneNumber |-> ""]}

NoOtpBody == [json |-> TRUE, phoneNumber |-> ""]

\* The zero time.Time and the absent retryAfter.
Never == -1
NoRetryAfter == -1

NoOtpResponse == [code |-> 0, retryAfter |-> NoRetryAfter]

\* int(d.Seconds()) of a duration of d ticks: truncation toward zero.
WholeSeconds(d) == IF d >= 0 THEN d \div TicksPerSecond
                             ELSE -((-d) \div TicksPerSecond)

\* The two revisions of the pipeline held by the repository:
\* "service" is pkg/services (ProcessLandingSubmission), "monolith" is the
\* single-file main package (processSubmission).
Variants == {"service", "monolith"}

\* The two revisions of the handler in front of pkg/services: "service"
\* answers with a message, "redirect" with the URL of the registration form.
HandlerVariants == {"service", "redirect"}

----------------------------------------------------------------------------
\* Inputs

\* Two spellings of one phone number: the contact directory normalizes both
\* to 1802, the pipeline hashes them as typed.
PhoneA == <<"1", "8", "0", "2">>
PhoneADashed == <<"8", "0", "-", "2">>
Phones == {PhoneA, PhoneADashed}
Firsts == {"", "Mary Ann"}
Lasts == {"", "Lovelace"}

\* A request body: malformed JSON, or an object with the three fields
\* (a missing field unmarshals to the empty string); the bodies enumerated
\* are the complete ones and those with exactly one field missing.
Bodies ==
    {b \in [json : {TRUE}, first : Firsts, last : Lasts,
            phone : Phones \cup {<<>>}] :
        \/ b.first # "" /\ b.last # "" /\ b.phone # <<>>
        \/ b.first = "" /\ b.last # "" /\ b.phone = PhoneA
        \/ b.first # "" /\ b.last = "" /\ b.phone = PhoneA
        \/ b.first # "" /\ b.last # "" /\ b.phone = <<>>}
        \cup {[json |-> FALSE, first |-> "", last |-> "", phone |-> <<>>]}

\* No request received yet.
NoBody == [json |-> TRUE, first |-> "", last |-> "", phone |-> <<>>]

\* models.LandingFormData zero value
ZeroData == [first |-> "", last |-> "", phone |-> <<>>]

\* Strings a textmagic.Client may return as contact id.  clientImpl renders
\* the provider's integer with %d; the service is written against the
\* interface and guards the conversion with strconv.ParseInt.
ContactIDs == {<<"4", "1">>, <<"n", "a">>}

----------------------------------------------------------------------------
\* Pure functions

\* strings.ReplaceAll(phone, c, "") for c in " ", "-", "(", ")"
StripSeparators(phone) ==
    SelectSeq(phone, LAMBDA c : c \notin {" ", "-", "(", ")"})

\* The cleaning at the head of GetOrCreateContact.
NormalizePhone(phone) ==
    LET stripped == StripSeparators(phone)
    IN  IF Len(stripped) > 0 /\ stripped[1] = "1"
        THEN stripped
        ELSE <<"1">> \o stripped

NormPhones == {NormalizePhone(ph) : ph \in Phones}

\* The phones handed to the TextMagic client: two spellings of one number
\* and a second number.
PhoneB == <<"1", "9", "0", "2">>
LookupPhones == Phones \cup {PhoneB}
NormLookupPhones == {NormalizePhone(ph) : ph \in LookupPhones}

\* The ids the TextMagic directory gives to new contacts.
DirectoryIDs == {7, 41}

\* fmt.Sprintf("%d", id) of an id that is not negative.
RECURSIVE FormatInt(_)
FormatInt(n) ==
    LET digit == <<"0", "1", "2", "3", "4", "5", "6", "7", "8", "9">>
    IN  IF n < 10 THEN <<digit[n + 1]>>
        ELSE FormatInt(n \div 10) \o <<digit[(n % 10) + 1]>>

\* Mutation: the phone is normalized before it is hashed.
HashString_Normalized(input) == <<"sha256", NormalizePhone(input)>>

\* utils.HashString: SHA-256, hex encoded.  The digest is modelled as an
\* injective tagging of the raw input: deterministic, no normalization.
HashString(input) == <<"sha256", input>>

Hashes == {HashString(ph) : ph \in Phones}

\* The fingerprints whose lead may complete the downstream form during a
\* run: the lead who typed the first spelling.
Converting == {HashString(PhoneA)}

Digits == {"0", "1", "2", "3", "4", "5", "6", "7", "8", "9"}

DigitValue(c) ==
    CASE c = "0" -> 0 [] c = "1" -> 1 [] c = "2" -> 2 [] c = "3" -> 3
      [] c = "4" -> 4 [] c = "5" -> 5 [] c = "6" -> 6 [] c = "7" -> 7
      [] c = "8" -> 8 [] c = "9" -> 9

RECURSIVE DecimalValue(_)
DecimalValue(s) ==
    IF Len(s) = 0 THEN 0
    ELSE 10 * DecimalValue(SubSeq(s, 1, Len(s) - 1)) + DigitValue(s[Len(s)])

\* strconv.ParseInt(s, 10, 64): [ok, val].  The ids of the model are short,
\* so the 64-bit range check never applies.
ParseInt(s) ==
    LET signed == Len(s) > 0 /\ s[1] \in {"+", "-"}
        body == IF signed THEN Tail(s) ELSE s
    IN  IF Len(body) = 0 \/ \E i \in 1..Len(body) : body[i] \notin Digits
        THEN [ok |-> FALSE, val |-> 0]
        ELSE [ok |-> TRUE,
              val |-> IF signed /\ s[1] = "-"
                      THEN 0 - DecimalValue(body) ELSE DecimalValue(body)]

\* url.QueryEscape on the values of the model: a space becomes "+", letters
\* and digits are kept.
QueryEscape(s) ==
    CASE s = "Mary Ann" -> "Mary+Ann"
      [] OTHER -> s

\* Mutation: the id parameter is left out of the query.
EncodeParams_NoID(firstName, lastName, hash) ==
    << <<"first", QueryEscape(firstName)>>,
       <<"last", QueryEscape(lastName)>> >>

\* url.Values.Encode(): key=value pairs sorted by key.  The id is a hex
\* digest, which escaping leaves alone.
EncodeParams(firstName, lastName, hash) ==
    << <<"first", QueryEscape(firstName)>>,
       <<"id", hash>>,
       <<"last", QueryEscape(lastName)>> >>

FollowupFormURL == "https://forms.democracyOS.com/t/bj1RaePxL2us"

RedirectFormURL == "https://forms.democracyos.com/burlingtonvt-register"

\* redirectURL of the redirecting handler
RedirectURL(firstName, lastName, hash) ==
    [base |-> RedirectFormURL, query |-> EncodeParams(firstName, lastName, hash)]

NoURL == [base |-> "", query |-> <<>>]

\* targetURL of scheduleFollowup
TargetURL(firstName, lastName, hash) ==
    [base |-> FollowupFormURL, query |-> EncodeParams(firstName, lastName, hash)]

\* fmt.Sprintf("Hello %s! Finish signing up for DemocracyOS here: %s", ...)
FollowupMessage(firstName, shortLink) ==
    <<"Hello ", firstName, "! Finish signing up for DemocracyOS here: ", shortLink>>

\* The row written to the Partial table.
PartialRecord(d, hash, contactIDInt) ==
    [first |-> d.first, last |-> d.last, phone |-> d.phone,
     hash |-> hash, contactID |-> contactIDInt]

\* Mutation: the write branch looks at the R2E result alone.
ShouldWrite_IgnoresPartial(v, existsPartial, existsR2E) == ~existsR2E

\* The branch condition guarding the write: both tables in the service,
\* the Partial table alone in the monolith.
ShouldWrite(v, existsPartial, existsR2E) ==
    IF v # "monolith" THEN ~existsPartial /\ ~existsR2E ELSE ~existsPartial

----------------------------------------------------------------------------
VARIABLES
    variant,         \* which revision of the pipeline runs
    partial,         \* Airtable Partial table: sequence of rows
    r2e,             \* Airtable R2E table: set of hashes that have a row
    contacts,        \* TextMagic directory: normalized phone -> contact id
    links,           \* Short.io: the long URLs it was asked to shorten
    sent,            \* TextMagic outbox: messages accepted for sending
    pc,              \* position of request / pipeline goroutine p
    req,             \* body of request p, as received
    resp,            \* HTTP response to request p
    data,            \* landingData of request p
    contactID,       \* textMagicContactID of pipeline p
    existsInPartial, \* local of pipeline p
    existsInR2E,     \* local of pipeline p
    fpc,             \* position of the follow-up goroutine of p
    slept,           \* minutes the follow-up of p has slept
    shortLink,       \* local of follow-up p
    calls,           \* facade calls made on behalf of p, by operation
    errs,            \* operations of p that returned an error (its log)
    truth,           \* history: was the hash in the Partial table when p's
                     \* Partial check ran, and in the R2E table when p's
                     \* existence check / re-check / send ran
    raced            \* history: hashes whose check-then-create overlapped

\* The OTP server (main.go)
VARIABLES
    now,             \* the clock, in ticks
    phoneRateLimits, \* map phone number -> time of the last passing request
    opc,             \* position of the /send-otp handler of request r
    oreq,            \* body of /send-otp request r
    oresp,           \* HTTP response to /send-otp request r
    passedAt,        \* history: the time at which r passed the rate limit
    provider,        \* Twilio Verify: the verifications it was asked for
    crashed          \* the Go runtime has ended the process

bridgeVars ==
    <<variant, partial, r2e, contacts, links, sent, pc, req, resp, data,
      contactID, existsInPartial, existsInR2E, fpc, slept, shortLink, calls,
      errs, truth, raced>>

otpVars ==
    <<now, phoneRateLimits, opc, oreq, oresp, passedAt, provider, crashed>>

\* The TextMagic client (GetOrCreateContact, step by step)
VARIABLES
    directory,       \* TextMagic: the contacts it holds, [phone, id]
    lpc,             \* position of call k of GetOrCreateContact
    lphone,          \* phone of call k, after the cleaning
    lresult,         \* the contact id call k returned
    lhist            \* history of call k: the contacts its first search
                     \* found, whether it issued a create, whether the
                     \* create was rejected as a duplicate

clientVars == <<directory, lpc, lphone, lresult, lhist>>

\* The VerificationService (pkg/services/verification.go)
VARIABLES
    vnow,            \* the clock, in minutes
    pending,         \* s.pending: phone -> *PendingVerification
    mu,              \* s.mu: the goroutine holding it for writing and the
                     \* goroutines holding it for reading
    twilio,          \* Twilio Verify: phones it has texted a code to
    ipc,             \* position of InitiateVerification i, then of the
                     \* cleanup goroutine it started
    iphone,          \* phone of InitiateVerification i
    wakeAt,          \* the time the Sleep of cleanup goroutine i ends
    vpc,             \* position of VerifyCode call v
    vreq,            \* phone and code of VerifyCode call v
    verification,    \* local of VerifyCode v: the entry it read
    vret             \* what VerifyCode v returned, with its history: the
                     \* provider checks it made, the entry its delete removed

verifyVars ==
    <<vnow, pending, mu, twilio, ipc, iphone, wakeAt, vpc, vreq,
      verification, vret>>

vars == <<bridgeVars, otpVars, clientVars, verifyVars>>

NoContact == <<>>
NoLink == ""

ZeroCalls ==
    [contact |-> 0, exists |-> 0, create |-> 0, sched |-> 0,
     recheck |-> 0, shorten |-> 0, send |-> 0]

NoResponse == [code |-> 0, text |-> "", redirect |-> NoURL]

NoTruth ==
    [inPartial |-> FALSE, check |-> FALSE, recheck |-> FALSE, send |-> FALSE]

phoneHash(p) == HashString(data[p].phone)

Bump(p, op) == [calls EXCEPT ![p][op] = @ + 1]

InitPipeline ==
    /\ partial = <<>>
    /\ r2e = {}
    /\ contacts = [n \in NormPhones |-> NoContact]
    /\ links = <<>>
    /\ sent = <<>>
    /\ pc = [p \in Subs |-> "idle"]
    /\ req = [p \in Subs |-> NoBody]
    /\ resp = [p \in Subs |-> NoResponse]
    /\ data = [p \in Subs |-> ZeroData]
    /\ contactID = [p \in Subs |-> NoContact]
    /\ existsInPartial = [p \in Subs |-> FALSE]
    /\ existsInR2E = [p \in Subs |-> FALSE]
    /\ fpc = [p \in Subs |-> "none"]
    /\ slept = [p \in Subs |-> 0]
    /\ shortLink = [p \in Subs |-> NoLink]
    /\ calls = [p \in Subs |-> ZeroCalls]
    /\ errs = [p \in Subs |-> {}]
    /\ truth = [p \in Subs |-> NoTruth]
    /\ raced = {}

\* The OTP server before its first request.
InitOtpServer ==
    /\ now = 0
    /\ phoneRateLimits = [ph \in OtpPhones |-> Never]
    /\ opc = [r \in OtpReqs |-> "idle"]
    /\ oreq = [r \in OtpReqs |-> NoOtpBody]
    /\ oresp = [r \in OtpReqs |-> NoOtpResponse]
    /\ passedAt = [r \in OtpReqs |-> Never]
    /\ provider = {}
    /\ crashed = FALSE

NoLookupHistory == [found |-> {}, issued |-> FALSE, rejected |-> FALSE]

\* The TextMagic directory before the first call of the client.
InitClient ==
    /\ directory = {}
    /\ lpc = [k \in Lookups |-> "idle"]
    /\ lphone = [k \in Lookups |-> <<>>]
    /\ lresult = [k \in Lookups |-> NoContact]
    /\ lhist = [k \in Lookups |-> NoLookupHistory]

\* The zero values of the VerificationService.
NoPending == [data |-> 0, expiresAt |-> Never]
NoGoroutine == <<>>
NoVerifyRequest == [phone |-> "", code |-> ""]
NoReturn ==
    [err |-> "", data |-> 0, checks |-> 0, removed |-> NoPending]

\* NewVerificationService: an empty pending map, nothing in progress.
InitVerification ==
    /\ vnow = 0
    /\ pending = [ph \in VerifyPhones |-> NoPending]
    /\ mu = [writer |-> NoGoroutine, readers |-> {}]
    /\ twilio = {}
    /\ ipc = [i \in Calls |-> "idle"]
    /\ iphone = [i \in Calls |-> ""]
    /\ wakeAt = [i \in Calls |-> Never]
    /\ vpc = [v \in Calls |-> "idle"]
    /\ vreq = [v \in Calls |-> NoVerifyRequest]
    /\ verification = [v \in Calls |-> NoPending]
    /\ vret = [v \in Calls |-> NoReturn]

Init ==
    /\ variant \in Variants
    /\ InitPipeline
    /\ InitOtpServer
    /\ InitClient
    /\ InitVerification

InitHandlers ==
    /\ variant \in HandlerVariants
    /\ InitPipeline
    /\ InitOtpServer
    /\ InitClient
    /\ InitVerification

InitOTP ==
    /\ variant = "service"
    /\ InitPipeline
    /\ InitOtpServer
    /\ InitClient
    /\ InitVerification

InitVerify ==
    /\ variant = "service"
    /\ InitPipeline
    /\ InitOtpServer
    /\ InitClient
    /\ InitVerification

InitContacts ==
    /\ variant = "service"
    /\ InitPipeline
    /\ InitOtpServer
    /\ InitClient
    /\ InitVerification

----------------------------------------------------------------------------
\* Facade views

\* Mutation: the Partial lookup never finds a row.
RecordExistsPartial_Never(hash) == FALSE

\* Mutation: the R2E lookup never finds a row.
RecordExistsR2E_Never(hash) == FALSE

\* airtable RecordExists: a filtered list returned at least one row.
RecordExistsPartial(hash) == \E i \in 1..Len(partial) : partial[i].hash = hash

RecordExistsR2E(hash) == hash \in r2e

\* The short URL Short.io mints for its n-th link.
ShortURL(n) == "https://sho.rt/" \o ToString(n)

\* Mutation: the last name is not required.
ValidateBody_LastOptional(body) ==
    IF ~body.json THEN "Invalid JSON format"
    ELSE IF body.first = "" \/ body.phone = <<>>
         THEN "Missing required fields"
         ELSE ""

\* Validation of the webhook body: the error text of the 400 response, or
\* "" when the body is accepted.
ValidateBody(body) ==
    IF ~body.json THEN "Invalid JSON format"
    ELSE IF body.first = "" \/ body.last = "" \/ body.phone = <<>>
         THEN "Missing required fields"
         ELSE ""

\* c.JSON(http.StatusBadRequest, gin.H{"error": ...})
BadRequest(error) == [code |-> 400, text |-> error, redirect |-> NoURL]

\* The 200 response of the handler: status "success" with a message, or,
\* from the redirecting handler, with the redirect URL built from the body.
Accepted(v, body) ==
    [code |-> 200, text |-> "success",
     redirect |-> IF v = "redirect"
                  THEN RedirectURL(body.first, body.last, HashString(body.phone))
                  ELSE NoURL]

\* Where the pipeline goes once its existence checks have returned.
AfterChecks(v, existsPartial, existsR2E, cid) ==
    IF ShouldWrite(v, existsPartial, existsR2E)
    THEN IF ParseInt(cid).ok THEN "create" ELSE "errParse"
    ELSE "skipped"

\* Mutation: the follow-up does not wait.
SleepOver_Always(p) == TRUE

\* Mutation: the sleep of the follow-up never returns.
SleepOver_Never(p) == FALSE

\* time.Sleep has returned.
SleepOver(p) == slept[p] >= FollowupDelay

\* Submission q has found its hash absent from the Partial table and has not
\* yet written or given up.
InFlight(q) == pc[q] \in {"checkR2E", "create"} /\ ~existsInPartial[q]

\* The existence check of p runs inside the check-then-create window of
\* another submission of the same hash, before any row for it is written.
Overlaps(p) ==
    /\ \A i \in 1..Len(partial) : partial[i].hash # phoneHash(p)
    /\ \E q \in Subs \ {p} : InFlight(q) /\ phoneHash(q) = phoneHash(p)

Fail(p, op) == [errs EXCEPT ![p] = @ \cup {op}]

----------------------------------------------------------------------------
\* The webhook handler.  Requests are anonymous, so they are numbered in
\* arrival order.

\* Mutation: the handler leaves the answer to an accepted request to the
\* pipeline instead of writing it before it returns.
HandleLandingSubmission_RespondsLater(p, body) ==
    /\ pc[p] = "idle"
    /\ \A q \in Subs : q < p => pc[q] # "idle"
    /\ req' = [req EXCEPT ![p] = body]
    /\ LET error == ValidateBody(body)
       IN  IF error # ""
           THEN /\ resp' = [resp EXCEPT ![p] = BadRequest(error)]
                /\ pc' = [pc EXCEPT ![p] = "rejected"]
                /\ data' = data
           ELSE /\ resp' = resp
                /\ pc' = [pc EXCEPT ![p] = "contact"]
                /\ data' = [data EXCEPT ![p] =
                              [first |-> body.first, last |-> body.last,
                               phone |-> body.phone]]
    /\ UNCHANGED <<otpVars, clientVars, verifyVars, variant, partial, r2e, contacts, links, sent, contactID,
                   existsInPartial, existsInR2E, fpc, slept, shortLink, calls,
                   errs, truth, raced>>

\* The webhook handler: decode, validate, start the pipeline as a goroutine
\* and answer at once.
HandleLandingSubmission(p, body) ==
    /\ pc[p] = "idle"
    /\ \A q \in Subs : q < p => pc[q] # "idle"
    /\ req' = [req EXCEPT ![p] = body]
    /\ LET error == ValidateBody(body)
       IN  IF error # ""
           THEN /\ resp' = [resp EXCEPT ![p] = BadRequest(error)]
                /\ pc' = [pc EXCEPT ![p] = "rejected"]
                /\ data' = data
           ELSE /\ resp' = [resp EXCEPT ![p] = Accepted(variant, body)]
                /\ pc' = [pc EXCEPT ![p] = "contact"]
                /\ data' = [data EXCEPT ![p] =
                              [first |-> body.first, last |-> body.last,
                               phone |-> body.phone]]
    /\ UNCHANGED <<otpVars, clientVars, verifyVars, variant, partial, r2e, contacts, links, sent, contactID,
                   existsInPartial, existsInR2E, fpc, slept, shortLink, calls,
                   errs, truth, raced>>

\* Mutation: the error of GetOrCreateContact is logged and the pipeline
\* goes on with the empty contact id.
GetOrCreateContact_IgnoresError(p) ==
    /\ pc[p] = "contact"
    /\ calls' = Bump(p, "contact")
    /\ pc' = [pc EXCEPT ![p] = "checkPartial"]
    /\ errs' = Fail(p, "contact")
    /\ UNCHANGED <<otpVars, clientVars, verifyVars, req, variant, partial, r2e, contacts, links, sent, resp, data,
                   contactID, existsInPartial, existsInR2E, fpc, slept,
                   shortLink, truth, raced>>

\* textMagicClient.GetOrCreateContact, seen from the pipeline: an error, the
\* id of the contact the directory holds for the normalized phone, or the id
\* of a contact created for it.
GetOrCreateContact(p) ==
    /\ pc[p] = "contact"
    /\ calls' = Bump(p, "contact")
    /\ LET n == NormalizePhone(data[p].phone)
       IN  \/ /\ pc' = [pc EXCEPT ![p] = "aborted"]
              /\ errs' = Fail(p, "contact")
              /\ UNCHANGED <<contacts, contactID>>
           \/ /\ contacts[n] # NoContact
              /\ contactID' = [contactID EXCEPT ![p] = contacts[n]]
              /\ pc' = [pc EXCEPT ![p] = "checkPartial"]
              /\ UNCHANGED <<contacts, errs>>
           \/ /\ contacts[n] = NoContact
              /\ \E id \in ContactIDs :
                    /\ \A m \in NormPhones : contacts[m] # id
                    /\ contacts' = [contacts EXCEPT ![n] = id]
                    /\ contactID' = [contactID EXCEPT ![p] = id]
              /\ pc' = [pc EXCEPT ![p] = "checkPartial"]
              /\ UNCHANGED errs
    /\ UNCHANGED <<otpVars, clientVars, verifyVars, req, variant, partial, r2e, links, sent, resp, data,
                   existsInPartial, existsInR2E, fpc, slept, shortLink,
                   truth, raced>>

\* The end of the existence checks of p: the branch taken at the if, with
\* the strconv.ParseInt of the write branch.
Decide(p, existsPartial, existsR2E, seen) ==
    LET to == AfterChecks(variant, existsPartial, existsR2E, contactID[p])
    IN  /\ pc' = [pc EXCEPT ![p] = IF to = "errParse" THEN "aborted" ELSE to]
        /\ errs' = IF to = "errParse" THEN Fail(p, "parse") ELSE errs
        /\ truth' = [seen EXCEPT ![p].check = phoneHash(p) \in r2e]

\* Mutation: an error of the Partial lookup is logged and its false result is
\* used as "absent".
CheckPartial_ErrorAsAbsent(p) ==
    /\ pc[p] = "checkPartial"
    /\ calls' = Bump(p, "exists")
    /\ \E failed \in BOOLEAN :
          LET exists == ~failed /\ RecordExistsPartial(phoneHash(p))
              seen == [truth EXCEPT ![p].inPartial =
                          \E i \in 1..Len(partial) :
                              partial[i].hash = phoneHash(p)]
          IN  /\ existsInPartial' = [existsInPartial EXCEPT ![p] = exists]
              /\ raced' = IF Overlaps(p) THEN raced \cup {phoneHash(p)}
                          ELSE raced
              /\ IF variant # "monolith"
                 THEN /\ pc' = [pc EXCEPT ![p] = "checkR2E"]
                      /\ truth' = seen
                      /\ errs' = IF failed THEN Fail(p, "existsPartial")
                                          ELSE errs
                 ELSE LET to == AfterChecks(variant, exists, FALSE,
                                            contactID[p])
                      IN  /\ pc' = [pc EXCEPT ![p] =
                                      IF to = "errParse" THEN "aborted" ELSE to]
                          /\ errs' = [errs EXCEPT ![p] =
                                @ \cup (IF failed THEN {"existsPartial"} ELSE {})
                                  \cup (IF to = "errParse" THEN {"parse"}
                                                           ELSE {})]
                          /\ truth' = [seen EXCEPT ![p].check =
                                                     phoneHash(p) \in r2e]
    /\ UNCHANGED <<otpVars, clientVars, verifyVars, req, variant, partial, r2e, contacts, links, sent,
                   resp, data, contactID, existsInR2E, fpc, slept, shortLink>>

\* RecordExists(AirtablePartialTable, phoneHash)
CheckPartial(p) ==
    /\ pc[p] = "checkPartial"
    /\ calls' = Bump(p, "exists")
    /\ \/ /\ pc' = [pc EXCEPT ![p] = "aborted"]
          /\ errs' = Fail(p, "existsPartial")
          /\ UNCHANGED <<existsInPartial, truth, raced>>
       \/ LET exists == RecordExistsPartial(phoneHash(p))
              seen == [truth EXCEPT ![p].inPartial =
                          \E i \in 1..Len(partial) :
                              partial[i].hash = phoneHash(p)]
          IN  /\ existsInPartial' = [existsInPartial EXCEPT ![p] = exists]
              /\ raced' = IF Overlaps(p) THEN raced \cup {phoneHash(p)}
                          ELSE raced
              /\ IF variant # "monolith"
                 THEN /\ pc' = [pc EXCEPT ![p] = "checkR2E"]
                      /\ truth' = seen
                      /\ UNCHANGED errs
                 ELSE Decide(p, exists, FALSE, seen)
    /\ UNCHANGED <<otpVars, clientVars, verifyVars, req, variant, partial, r2e, contacts, links, sent, resp, data,
                   contactID, existsInR2E, fpc, slept, shortLink>>

\* RecordExists(AirtableR2ETable, phoneHash), service revision only.
CheckR2E(p) ==
    /\ pc[p] = "checkR2E"
    /\ calls' = Bump(p, "exists")
    /\ \/ /\ pc' = [pc EXCEPT ![p] = "aborted"]
          /\ errs' = Fail(p, "existsR2E")
          /\ UNCHANGED <<existsInR2E, truth>>
       \/ LET exists == RecordExistsR2E(phoneHash(p))
          IN  /\ existsInR2E' = [existsInR2E EXCEPT ![p] = exists]
              /\ Decide(p, existsInPartial[p], exists, truth)
    /\ UNCHANGED <<otpVars, clientVars, verifyVars, req, variant, partial, r2e, contacts, links, sent, resp, data,
                   contactID, existsInPartial, fpc, slept, shortLink, raced>>

\* Mutation: the follow-up is never started after the write.
CreateRecord_NoFollowup(p) ==
    /\ pc[p] = "create"
    /\ partial' = Append(partial,
          PartialRecord(data[p], phoneHash(p), ParseInt(contactID[p]).val))
    /\ pc' = [pc EXCEPT ![p] = "done"]
    /\ calls' = Bump(p, "create")
    /\ UNCHANGED <<otpVars, clientVars, verifyVars, req, variant, r2e, contacts, links, sent, resp,
                   data, contactID,
                   existsInPartial, existsInR2E, fpc, slept, shortLink, errs,
                   truth, raced>>

\* Mutation: the follow-up is started whether or not the write succeeded.
CreateRecord_SchedulesOnError(p) ==
    /\ pc[p] = "create"
    /\ \/ /\ pc' = [pc EXCEPT ![p] = "aborted"]
          /\ errs' = Fail(p, "create")
          /\ UNCHANGED partial
       \/ /\ partial' = Append(partial,
                PartialRecord(data[p], phoneHash(p), ParseInt(contactID[p]).val))
          /\ pc' = [pc EXCEPT ![p] = "done"]
          /\ UNCHANGED errs
    /\ fpc' = [fpc EXCEPT ![p] = "sleeping"]
    /\ slept' = [slept EXCEPT ![p] = 0]
    /\ calls' = [calls EXCEPT ![p].create = @ + 1, ![p].sched = @ + 1]
    /\ UNCHANGED <<otpVars, clientVars, verifyVars, req, variant, r2e, contacts, links, sent, resp,
                   data, contactID,
                   existsInPartial, existsInR2E, shortLink, truth, raced>>

\* Mutation: the table keeps one row per hash; a create for a hash that has
\* a row succeeds without adding one.
CreateRecord_Upsert(p) ==
    /\ pc[p] = "create"
    /\ \/ /\ pc' = [pc EXCEPT ![p] = "aborted"]
          /\ errs' = Fail(p, "create")
          /\ calls' = Bump(p, "create")
          /\ UNCHANGED <<partial, fpc, slept>>
       \/ /\ partial' =
                 IF \E i \in 1..Len(partial) : partial[i].hash = phoneHash(p)
                 THEN partial
                 ELSE Append(partial,
                        PartialRecord(data[p], phoneHash(p),
                                      ParseInt(contactID[p]).val))
          /\ pc' = [pc EXCEPT ![p] = "done"]
          /\ fpc' = [fpc EXCEPT ![p] = "sleeping"]
          /\ slept' = [slept EXCEPT ![p] = 0]
          /\ calls' = [calls EXCEPT ![p].create = @ + 1, ![p].sched = @ + 1]
          /\ UNCHANGED errs
    /\ UNCHANGED <<otpVars, clientVars, verifyVars, req, variant, r2e, contacts, links, sent, resp, data,
                   contactID, existsInPartial, existsInR2E, shortLink, truth,
                   raced>>

\* Mutation: the record is created in the R2E table.
CreateRecord_IntoR2E(p) ==
    /\ pc[p] = "create"
    /\ \/ /\ pc' = [pc EXCEPT ![p] = "aborted"]
          /\ errs' = Fail(p, "create")
          /\ calls' = Bump(p, "create")
          /\ UNCHANGED <<r2e, fpc, slept>>
       \/ /\ r2e' = r2e \cup {phoneHash(p)}
          /\ pc' = [pc EXCEPT ![p] = "done"]
          /\ fpc' = [fpc EXCEPT ![p] = "sleeping"]
          /\ slept' = [slept EXCEPT ![p] = 0]
          /\ calls' = [calls EXCEPT ![p].create = @ + 1, ![p].sched = @ + 1]
          /\ UNCHANGED errs
    /\ UNCHANGED <<otpVars, clientVars, verifyVars, req, variant, partial, contacts, links, sent, resp, data,
                   contactID, existsInPartial, existsInR2E, shortLink, truth,
                   raced>>

\* CreateRecord(AirtablePartialTable, record) and, when it succeeded,
\* go scheduleFollowup(...).
CreateRecord(p) ==
    /\ pc[p] = "create"
    /\ \/ /\ pc' = [pc EXCEPT ![p] = "aborted"]
          /\ errs' = Fail(p, "create")
          /\ calls' = Bump(p, "create")
          /\ UNCHANGED <<partial, fpc, slept>>
       \/ /\ partial' = Append(partial,
                PartialRecord(data[p], phoneHash(p), ParseInt(contactID[p]).val))
          /\ pc' = [pc EXCEPT ![p] = "done"]
          /\ fpc' = [fpc EXCEPT ![p] = "sleeping"]
          /\ slept' = [slept EXCEPT ![p] = 0]
          /\ calls' = [calls EXCEPT ![p].create = @ + 1, ![p].sched = @ + 1]
          /\ UNCHANGED errs
    /\ UNCHANGED <<otpVars, clientVars, verifyVars, req, variant, r2e, contacts, links, sent, resp,
                   data, contactID,
                   existsInPartial, existsInR2E, shortLink, truth, raced>>

\* Mutation: the result of the re-check is not looked at.
FollowupCheck_IgnoresResult(p) ==
    /\ fpc[p] = "sleeping"
    /\ SleepOver(p)
    /\ calls' = Bump(p, "recheck")
    /\ truth' = [truth EXCEPT ![p].recheck = phoneHash(p) \in r2e]
    /\ \/ /\ fpc' = [fpc EXCEPT ![p] = "failed"]
          /\ errs' = Fail(p, "recheck")
       \/ /\ fpc' = [fpc EXCEPT ![p] = "shorten"]
          /\ UNCHANGED errs
    /\ UNCHANGED <<otpVars, clientVars, verifyVars, req, variant, partial, r2e, contacts, links, sent,
                   pc, resp,
                   data, contactID, existsInPartial, existsInR2E, slept,
                   shortLink, raced>>

\* scheduleFollowup after its sleep: RecordExists(AirtableR2ETable, phoneHash)
FollowupCheck(p) ==
    /\ fpc[p] = "sleeping"
    /\ SleepOver(p)
    /\ calls' = Bump(p, "recheck")
    /\ truth' = [truth EXCEPT ![p].recheck = phoneHash(p) \in r2e]
    /\ \/ /\ fpc' = [fpc EXCEPT ![p] = "failed"]
          /\ errs' = Fail(p, "recheck")
       \/ /\ fpc' = [fpc EXCEPT ![p] =
                       IF RecordExistsR2E(phoneHash(p)) THEN "suppressed"
                       ELSE "shorten"]
          /\ UNCHANGED errs
    /\ UNCHANGED <<otpVars, clientVars, verifyVars, req, variant, partial, r2e, contacts, links, sent,
                   pc, resp,
                   data, contactID, existsInPartial, existsInR2E, slept,
                   shortLink, raced>>

\* Mutation: a failed CreateShortLink is logged and the message is sent
\* with the empty link.
CreateShortLink_ContinuesOnError(p) ==
    /\ fpc[p] = "shorten"
    /\ calls' = Bump(p, "shorten")
    /\ fpc' = [fpc EXCEPT ![p] = "send"]
    /\ \/ /\ errs' = Fail(p, "shorten")
          /\ UNCHANGED <<links, shortLink>>
       \/ /\ links' = Append(links,
                TargetURL(data[p].first, data[p].last, phoneHash(p)))
          /\ shortLink' = [shortLink EXCEPT ![p] = ShortURL(Len(links) + 1)]
          /\ UNCHANGED errs
    /\ UNCHANGED <<otpVars, clientVars, verifyVars, req, variant, partial, r2e, contacts, sent, pc, resp, data,
                   contactID, existsInPartial, existsInR2E, slept, truth, raced>>

\* shortIOClient.CreateShortLink(targetURL)
CreateShortLink(p) ==
    /\ fpc[p] = "shorten"
    /\ calls' = Bump(p, "shorten")
    /\ \/ /\ fpc' = [fpc EXCEPT ![p] = "failed"]
          /\ errs' = Fail(p, "shorten")
          /\ UNCHANGED <<links, shortLink>>
       \/ /\ links' = Append(links,
                TargetURL(data[p].first, data[p].last, phoneHash(p)))
          /\ shortLink' = [shortLink EXCEPT ![p] = ShortURL(Len(links) + 1)]
          /\ fpc' = [fpc EXCEPT ![p] = "send"]
          /\ UNCHANGED errs
    /\ UNCHANGED <<otpVars, clientVars, verifyVars, req, variant, partial, r2e, contacts, sent, pc, resp, data,
                   contactID, existsInPartial, existsInR2E, slept, truth, raced>>

\* textMagicClient.SendMessage(contactID, message)
SendMessage(p) ==
    /\ fpc[p] = "send"
    /\ calls' = Bump(p, "send")
    /\ \/ /\ fpc' = [fpc EXCEPT ![p] = "failed"]
          /\ errs' = Fail(p, "send")
          /\ UNCHANGED <<sent, truth>>
       \/ /\ sent' = Append(sent,
                [to |-> contactID[p],
                 text |-> FollowupMessage(data[p].first, shortLink[p])])
          /\ fpc' = [fpc EXCEPT ![p] = "notified"]
          /\ truth' = [truth EXCEPT ![p].send = phoneHash(p) \in r2e]
          /\ UNCHANGED errs
    /\ UNCHANGED <<otpVars, clientVars, verifyVars, req, variant, partial, r2e, contacts, links, pc, resp, data,
                   contactID, existsInPartial, existsInR2E, slept, shortLink,
                   raced>>

\* Time passes for every sleeping follow-up.  A sleeper stops counting once
\* its delay is over: from then on only the fact that it is over matters.
Tick ==
    /\ \E p \in Subs : fpc[p] = "sleeping" /\ slept[p] < FollowupDelay
    /\ slept' = [p \in Subs |->
                    IF fpc[p] = "sleeping" /\ slept[p] < FollowupDelay
                    THEN IF slept[p] + TickMinutes > FollowupDelay
                         THEN FollowupDelay ELSE slept[p] + TickMinutes
                    ELSE slept[p]]
    /\ UNCHANGED <<otpVars, clientVars, verifyVars, req, variant, partial, r2e, contacts, links, sent,
                   pc, resp,
                   data, contactID, existsInPartial, existsInR2E, fpc,
                   shortLink, calls, errs, truth, raced>>

\* The downstream form, outside the repository, records a conversion.
ExternalComplete(h) ==
    /\ h \notin r2e
    /\ r2e' = r2e \cup {h}
    /\ UNCHANGED <<otpVars, clientVars, verifyVars, req, variant, partial, contacts, links, sent, pc, resp, data,
                   contactID, existsInPartial, existsInR2E, fpc, slept,
                   shortLink, calls, errs, truth, raced>>

Next ==
    \/ \E p \in Subs, body \in Bodies : HandleLandingSubmission(p, body)
    \/ \E p \in Subs : GetOrCreateContact(p)
    \/ \E p \in Subs : CheckPartial(p)
    \/ \E p \in Subs : CheckR2E(p)
    \/ \E p \in Subs : CreateRecord(p)
    \/ \E p \in Subs : FollowupCheck(p)
    \/ \E p \in Subs : CreateShortLink(p)
    \/ \E p \in Subs : SendMessage(p)
    \/ Tick
    \/ \E h \in Converting : ExternalComplete(h)

Spec == Init /\ [][Next]_vars

\* pkg/services behind either revision of its handler.
SpecHandlers == InitHandlers /\ [][Next]_vars

\* The Go scheduler runs every runnable goroutine, time passes, and the
\* calls to the facades return: a follow-up goroutine that can take its next
\* step takes it.
Fairness ==
    /\ WF_vars(Tick)
    /\ \A p \in Subs :
          /\ WF_vars(FollowupCheck(p))
          /\ WF_vars(CreateShortLink(p))
          /\ WF_vars(SendMessage(p))

SpecFair == Init /\ [][Next]_vars /\ Fairness

----------------------------------------------------------------------------
\* The OTP server (main.go).  gin runs every request in a goroutine of its
\* own; phoneRateLimits is a plain map shared by all of them.

\* POST /send-otp up to the rate limit: BindJSON and the basic validation.
SendOtp(r, body) ==
    /\ ~crashed
    /\ opc[r] = "idle"
    /\ \A q \in OtpReqs : q < r => opc[q] # "idle"
    /\ oreq' = [oreq EXCEPT ![r] = body]
    /\ IF ~body.json \/ body.phoneNumber = ""
       THEN /\ oresp' = [oresp EXCEPT ![r] = [code |-> 400,
                                              retryAfter |-> NoRetryAfter]]
            /\ opc' = [opc EXCEPT ![r] = "rejected"]
       ELSE /\ opc' = [opc EXCEPT ![r] = "check"]
            /\ oresp' = oresp
    /\ UNCHANGED <<bridgeVars, clientVars, verifyVars, now, phoneRateLimits, passedAt, provider,
                   crashed>>

\* lastRequest, exists := phoneRateLimits[req.PhoneNumber] and the test of
\* the cooldown; 429 with retryAfter when it has not run out.
CheckRateLimit(r) ==
    /\ ~crashed
    /\ opc[r] = "check"
    /\ LET lastRequest == phoneRateLimits[oreq[r].phoneNumber]
           exists == lastRequest # Never
       IN  /\ IF exists /\ now - lastRequest < Cooldown
              THEN /\ oresp' = [oresp EXCEPT ![r] =
                         [code |-> 429,
                          retryAfter |->
                              WholeSeconds(Cooldown - (now - lastRequest))]]
                   /\ opc' = [opc EXCEPT ![r] = "limited"]
                   /\ passedAt' = passedAt
              ELSE /\ opc' = [opc EXCEPT ![r] = "update"]
                   /\ passedAt' = [passedAt EXCEPT ![r] = now]
                   /\ oresp' = oresp
    /\ UNCHANGED <<bridgeVars, clientVars, verifyVars, now, phoneRateLimits, oreq, provider, crashed>>

\* Another handler is at an access of the map while r writes it.
MapRace(r) == \E q \in OtpReqs \ {r} : opc[q] \in {"check", "update"}

\* phoneRateLimits[req.PhoneNumber] = time.Now().  The map has no lock: a
\* write that overlaps another access is a data race, which the Go runtime
\* may answer by ending the process (fatal error: concurrent map writes).
UpdateRateLimit(r) ==
    /\ ~crashed
    /\ opc[r] = "update"
    /\ \/ /\ phoneRateLimits' =
                 [phoneRateLimits EXCEPT ![oreq[r].phoneNumber] = now]
          /\ opc' = [opc EXCEPT ![r] = "send"]
          /\ crashed' = crashed
       \/ /\ MapRace(r)
          /\ crashed' = TRUE
          /\ UNCHANGED <<phoneRateLimits, opc>>
    /\ UNCHANGED <<bridgeVars, clientVars, verifyVars, now, oreq, oresp, passedAt, provider>>

\* client.VerifyV2.CreateVerification and the response: 500 on its error,
\* 200 once the provider has accepted the verification.
CreateVerification(r) ==
    /\ ~crashed
    /\ opc[r] = "send"
    /\ \/ /\ oresp' = [oresp EXCEPT ![r] = [code |-> 500,
                                             retryAfter |-> NoRetryAfter]]
          /\ opc' = [opc EXCEPT ![r] = "failed"]
          /\ provider' = provider
       \/ /\ provider' = provider \cup
                 {[to |-> oreq[r].phoneNumber, request |-> r]}
          /\ oresp' = [oresp EXCEPT ![r] = [code |-> 200,
                                             retryAfter |-> NoRetryAfter]]
          /\ opc' = [opc EXCEPT ![r] = "sent"]
    /\ UNCHANGED <<bridgeVars, clientVars, verifyVars, now, phoneRateLimits, oreq, passedAt, crashed>>

\* Time passes.
Advance ==
    /\ ~crashed
    /\ now + ClockStep <= MaxMinutes * 60 * TicksPerSecond
    /\ now' = now + ClockStep
    /\ UNCHANGED <<bridgeVars, clientVars, verifyVars, phoneRateLimits, opc, oreq, oresp, passedAt,
                   provider, crashed>>

NextOTP ==
    \/ \E r \in OtpReqs, body \in OtpBodies : SendOtp(r, body)
    \/ \E r \in OtpReqs : CheckRateLimit(r)
    \/ \E r \in OtpReqs : UpdateRateLimit(r)
    \/ \E r \in OtpReqs : CreateVerification(r)
    \/ Advance

SpecOTP == InitOTP /\ [][NextOTP]_vars

----------------------------------------------------------------------------
\* The TextMagic client, step by step.  The directory answers a search
\* with the contacts that have the phone asked for, and refuses a second
\* contact for a phone it holds ("already exists in your contacts"); every
\* request to it is one atomic step.

\* Mutation: a search returns every contact of the directory.
Matching_All(phone) == directory

\* GET /contacts/search?query=phone: the resources of the response.
Matching(phone) == {c \in directory : c.phone = phone}

\* The call and the cleaning of its phone.
CallGetOrCreateContact(k, phone) ==
    /\ lpc[k] = "idle"
    /\ \A j \in Lookups : j < k => lpc[j] # "idle"
    /\ lphone' = [lphone EXCEPT ![k] = NormalizePhone(phone)]
    /\ lpc' = [lpc EXCEPT ![k] = "search"]
    /\ UNCHANGED <<bridgeVars, otpVars, verifyVars, directory, lresult, lhist>>

\* The first search: an error, the id of the first contact found, or on to
\* the create when the total is zero.
SearchContact(k) ==
    /\ lpc[k] = "search"
    /\ \/ /\ lpc' = [lpc EXCEPT ![k] = "error"]
          /\ UNCHANGED <<lresult, lhist>>
       \/ LET resources == Matching(lphone[k])
          IN  /\ lhist' = [lhist EXCEPT ![k].found = resources]
              /\ IF resources # {}
                 THEN /\ \E c \in resources :
                            lresult' = [lresult EXCEPT ![k] = FormatInt(c.id)]
                      /\ lpc' = [lpc EXCEPT ![k] = "returned"]
                 ELSE /\ lpc' = [lpc EXCEPT ![k] = "create"]
                      /\ lresult' = lresult
    /\ UNCHANGED <<bridgeVars, otpVars, verifyVars, directory, lphone>>

\* POST /contacts: an error, the 400 of a phone that already has a contact
\* (on to findContactByPhone), or 201 with the id of the new contact.
CreateContact(k) ==
    /\ lpc[k] = "create"
    /\ \/ /\ lpc' = [lpc EXCEPT ![k] = "error"]
          /\ lhist' = [lhist EXCEPT ![k].issued = TRUE]
          /\ UNCHANGED <<directory, lresult>>
       \/ /\ \E c \in directory : c.phone = lphone[k]
          /\ lpc' = [lpc EXCEPT ![k] = "find"]
          /\ lhist' = [lhist EXCEPT ![k].issued = TRUE,
                                    ![k].rejected = TRUE]
          /\ UNCHANGED <<directory, lresult>>
       \/ /\ \A c \in directory : c.phone # lphone[k]
          /\ \E id \in DirectoryIDs :
                /\ \A c \in directory : c.id # id
                /\ directory' = directory \cup
                       {[phone |-> lphone[k], id |-> id]}
                /\ lresult' = [lresult EXCEPT ![k] = FormatInt(id)]
          /\ lpc' = [lpc EXCEPT ![k] = "returned"]
          /\ lhist' = [lhist EXCEPT ![k].issued = TRUE]
    /\ UNCHANGED <<bridgeVars, otpVars, verifyVars, lphone>>

\* findContactByPhone: an error (the only outcome of a search that finds
\* nothing), or the id of the first contact found.
FindContactByPhone(k) ==
    /\ lpc[k] = "find"
    /\ \/ /\ lpc' = [lpc EXCEPT ![k] = "error"]
          /\ lresult' = lresult
       \/ /\ \E c \in Matching(lphone[k]) :
                lresult' = [lresult EXCEPT ![k] = FormatInt(c.id)]
          /\ lpc' = [lpc EXCEPT ![k] = "returned"]
    /\ UNCHANGED <<bridgeVars, otpVars, verifyVars, directory, lphone, lhist>>

NextContacts ==
    \/ \E k \in Lookups, phone \in LookupPhones :
           CallGetOrCreateContact(k, phone)
    \/ \E k \in Lookups : SearchContact(k)
    \/ \E k \in Lookups : CreateContact(k)
    \/ \E k \in Lookups : FindContactByPhone(k)

SpecContacts == InitContacts /\ [][NextContacts]_vars

----------------------------------------------------------------------------
\* The VerificationService.  Every call and every cleanup goroutine runs
\* on its own; s.mu is a sync.RWMutex, taken for writing by Lock and for
\* reading by RLock; a call of the Twilio client is one atomic step.

Initiator(i) == <<"initiate", i>>
Verifier(v) == <<"verify", v>>

\* s.mu.Lock() and s.mu.RLock() return.
CanLock == mu.writer = NoGoroutine /\ mu.readers = {}
CanRLock == mu.writer = NoGoroutine

Locked(g) == [mu EXCEPT !.writer = g]
Unlocked == [mu EXCEPT !.writer = NoGoroutine]

\* Call c has not been made, as the one or as the other operation.
Uncalled(c) == ipc[c] = "idle" /\ vpc[c] = "idle"

\* The call of InitiateVerification(phone, data); the data of call i is i.
InitiateVerification(i, phone) ==
    /\ Uncalled(i)
    /\ \A j \in Calls : j < i => ~Uncalled(j)
    /\ iphone' = [iphone EXCEPT ![i] = phone]
    /\ ipc' = [ipc EXCEPT ![i] = "send"]
    /\ UNCHANGED <<bridgeVars, otpVars, clientVars, vnow, pending, mu,
                   twilio, wakeAt, vpc, vreq, verification, vret>>

\* s.twilioClient.SendVerificationCode(phone): its error is returned
\* before anything is stored.
SendVerificationCode(i) ==
    /\ ipc[i] = "send"
    /\ \/ /\ ipc' = [ipc EXCEPT ![i] = "failed"]
          /\ twilio' = twilio
       \/ /\ twilio' = twilio \cup {iphone[i]}
          /\ ipc' = [ipc EXCEPT ![i] = "lock"]
    /\ UNCHANGED <<bridgeVars, otpVars, clientVars, vnow, pending, mu,
                   iphone, wakeAt, vpc, vreq, verification, vret>>

\* s.mu.Lock() of InitiateVerification.
LockToStore(i) ==
    /\ ipc[i] = "lock"
    /\ CanLock
    /\ mu' = Locked(Initiator(i))
    /\ ipc' = [ipc EXCEPT ![i] = "store"]
    /\ UNCHANGED <<bridgeVars, otpVars, clientVars, vnow, pending, twilio,
                   iphone, wakeAt, vpc, vreq, verification, vret>>

\* s.pending[phone] = &PendingVerification{...}; s.mu.Unlock(); the cleanup
\* goroutine starts and sleeps for the timeout.
StorePending(i) ==
    /\ ipc[i] = "store"
    /\ pending' = [pending EXCEPT ![iphone[i]] =
                       [data |-> i, expiresAt |-> vnow + Timeout]]
    /\ mu' = Unlocked
    /\ wakeAt' = [wakeAt EXCEPT ![i] = vnow + Timeout]
    /\ ipc' = [ipc EXCEPT ![i] = "sleep"]
    /\ UNCHANGED <<bridgeVars, otpVars, clientVars, vnow, twilio, iphone,
                   vpc, vreq, verification, vret>>

\* The cleanup goroutine of i: time.Sleep(s.timeout) is over, s.mu.Lock().
CleanupLock(i) ==
    /\ ipc[i] = "sleep"
    /\ vnow >= wakeAt[i]
    /\ CanLock
    /\ mu' = Locked(Initiator(i))
    /\ ipc' = [ipc EXCEPT ![i] = "cleanup"]
    /\ UNCHANGED <<bridgeVars, otpVars, clientVars, vnow, pending, twilio,
                   iphone, wakeAt, vpc, vreq, verification, vret>>

\* delete(s.pending, phone); s.mu.Unlock() of the cleanup goroutine.
CleanupDelete(i) ==
    /\ ipc[i] = "cleanup"
    /\ pending' = [pending EXCEPT ![iphone[i]] = NoPending]
    /\ mu' = Unlocked
    /\ ipc' = [ipc EXCEPT ![i] = "cleaned"]
    /\ UNCHANGED <<bridgeVars, otpVars, clientVars, vnow, twilio, iphone,
                   wakeAt, vpc, vreq, verification, vret>>

\* The call of VerifyCode(phone, code) and its s.mu.RLock().
VerifyCode(v, phone, code) ==
    /\ Uncalled(v)
    /\ \A u \in Calls : u < v => ~Uncalled(u)
    /\ CanRLock
    /\ vreq' = [vreq EXCEPT ![v] = [phone |-> phone, code |-> code]]
    /\ mu' = [mu EXCEPT !.readers = @ \cup {Verifier(v)}]
    /\ vpc' = [vpc EXCEPT ![v] = "read"]
    /\ UNCHANGED <<bridgeVars, otpVars, clientVars, vnow, pending, twilio,
                   ipc, iphone, wakeAt, verification, vret>>

\* verification, exists := s.pending[phone]; s.mu.RUnlock(); then
\* ErrVerificationExpired when there is no entry, on to the delete of an
\* entry whose ExpiresAt has passed, on to the provider otherwise.
ReadPending(v) ==
    /\ vpc[v] = "read"
    /\ LET entry == pending[vreq[v].phone]
           exists == entry # NoPending
       IN  /\ verification' = [verification EXCEPT ![v] = entry]
           /\ IF ~exists
              THEN /\ vret' = [vret EXCEPT ![v].err = "ErrVerificationExpired"]
                   /\ vpc' = [vpc EXCEPT ![v] = "returned"]
              ELSE /\ vret' = vret
                   /\ vpc' = [vpc EXCEPT ![v] =
                          IF vnow > entry.expiresAt THEN "expired"
                                                    ELSE "check"]
    /\ mu' = [mu EXCEPT !.readers = @ \ {Verifier(v)}]
    /\ UNCHANGED <<bridgeVars, otpVars, clientVars, vnow, pending, twilio,
                   ipc, iphone, wakeAt, vreq>>

\* s.mu.Lock() of the expired branch.
LockExpired(v) ==
    /\ vpc[v] = "expired"
    /\ CanLock
    /\ mu' = Locked(Verifier(v))
    /\ vpc' = [vpc EXCEPT ![v] = "drop"]
    /\ UNCHANGED <<bridgeVars, otpVars, clientVars, vnow, pending, twilio,
                   ipc, iphone, wakeAt, vreq, verification, vret>>

\* delete(s.pending, phone); s.mu.Unlock(); return ErrVerificationExpired.
DeleteExpired(v) ==
    /\ vpc[v] = "drop"
    /\ pending' = [pending EXCEPT ![vreq[v].phone] = NoPending]
    /\ mu' = Unlocked
    /\ vret' = [vret EXCEPT ![v].err = "ErrVerificationExpired",
                            ![v].removed = pending[vreq[v].phone]]
    /\ vpc' = [vpc EXCEPT ![v] = "returned"]
    /\ UNCHANGED <<bridgeVars, otpVars, clientVars, vnow, twilio, ipc,
                   iphone, wakeAt, vreq, verification>>

\* Mutation: a code that is not approved costs the phone its entry.
CheckVerificationCode_DropsOnReject(v) ==
    /\ vpc[v] = "check"
    /\ \/ /\ vret' = [vret EXCEPT ![v].err = "error checking code",
                                  ![v].checks = @ + 1]
          /\ pending' = pending
          /\ vpc' = [vpc EXCEPT ![v] = "returned"]
       \/ LET verified == /\ vreq[v].phone \in twilio
                          /\ vreq[v].code = SentCode
          IN  IF ~verified
              THEN /\ vret' = [vret EXCEPT ![v].err = "ErrInvalidCode",
                                           ![v].checks = @ + 1]
                   /\ pending' =
                          [pending EXCEPT ![vreq[v].phone] = NoPending]
                   /\ vpc' = [vpc EXCEPT ![v] = "returned"]
              ELSE /\ vret' = [vret EXCEPT ![v].checks = @ + 1]
                   /\ pending' = pending
                   /\ vpc' = [vpc EXCEPT ![v] = "lock"]
    /\ UNCHANGED <<bridgeVars, otpVars, clientVars, vnow, mu, twilio, ipc,
                   iphone, wakeAt, vreq, verification>>

\* s.twilioClient.CheckVerificationCode(phone, code), under no lock: its
\* error, ErrInvalidCode when the status is not "approved", or on to the
\* delete.  The provider approves the code it texted to the phone.
CheckVerificationCode(v) ==
    /\ vpc[v] = "check"
    /\ \/ /\ vret' = [vret EXCEPT ![v].err = "error checking code",
                                  ![v].checks = @ + 1]
          /\ vpc' = [vpc EXCEPT ![v] = "returned"]
       \/ LET verified == /\ vreq[v].phone \in twilio
                          /\ vreq[v].code = SentCode
          IN  IF ~verified
              THEN /\ vret' = [vret EXCEPT ![v].err = "ErrInvalidCode",
                                           ![v].checks = @ + 1]
                   /\ vpc' = [vpc EXCEPT ![v] = "returned"]
              ELSE /\ vret' = [vret EXCEPT ![v].checks = @ + 1]
                   /\ vpc' = [vpc EXCEPT ![v] = "lock"]
    /\ UNCHANGED <<bridgeVars, otpVars, clientVars, vnow, pending, mu,
                   twilio, ipc, iphone, wakeAt, vreq, verification>>

\* s.mu.Lock() of the approved branch.
LockToConsume(v) ==
    /\ vpc[v] = "lock"
    /\ CanLock
    /\ mu' = Locked(Verifier(v))
    /\ vpc' = [vpc EXCEPT ![v] = "consume"]
    /\ UNCHANGED <<bridgeVars, otpVars, clientVars, vnow, pending, twilio,
                   ipc, iphone, wakeAt, vreq, verification, vret>>

\* data := verification.Data; delete(s.pending, phone); s.mu.Unlock();
\* return data, nil.
ConsumePending(v) ==
    /\ vpc[v] = "consume"
    /\ pending' = [pending EXCEPT ![vreq[v].phone] = NoPending]
    /\ mu' = Unlocked
    /\ vret' = [vret EXCEPT ![v].data = verification[v].data,
                            ![v].removed = pending[vreq[v].phone]]
    /\ vpc' = [vpc EXCEPT ![v] = "returned"]
    /\ UNCHANGED <<bridgeVars, otpVars, clientVars, vnow, twilio, ipc,
                   iphone, wakeAt, vreq, verification>>

\* Time passes.
Pass ==
    /\ vnow + TickMinutes <= Horizon
    /\ vnow' = vnow + TickMinutes
    /\ UNCHANGED <<bridgeVars, otpVars, clientVars, pending, mu, twilio,
                   ipc, iphone, wakeAt, vpc, vreq, verification, vret>>

NextVerify ==
    \/ \E i \in Calls, phone \in VerifyPhones :
           InitiateVerification(i, phone)
    \/ \E i \in Calls : SendVerificationCode(i)
    \/ \E i \in Calls : LockToStore(i)
    \/ \E i \in Calls : StorePending(i)
    \/ \E i \in Calls : CleanupLock(i)
    \/ \E i \in Calls : CleanupDelete(i)
    \/ \E v \in Calls, phone \in VerifyPhones, code \in Codes :
           VerifyCode(v, phone, code)
    \/ \E v \in Calls : ReadPending(v)
    \/ \E v \in Calls : LockExpired(v)
    \/ \E v \in Calls : DeleteExpired(v)
    \/ \E v \in Calls : CheckVerificationCode(v)
    \/ \E v \in Calls : LockToConsume(v)
    \/ \E v \in Calls : ConsumePending(v)
    \/ Pass

SpecVerify == InitVerify /\ [][NextVerify]_vars

----------------------------------------------------------------------------
\* Vocabulary of the properties

Range(f) == {f[i] : i \in DOMAIN f}

\* Rows of the Partial table keyed by hash h.
CountRows(h) == Cardinality({i \in 1..Len(partial) : partial[i].hash = h})

\* Accepted submissions of the phone whose hash is h.
SubmissionsOf(h) ==
    {p \in Subs : pc[p] \notin {"idle", "rejected"} /\ phoneHash(p) = h}

PipelineOver(p) == pc[p] \in {"done", "skipped", "aborted"}

FollowupOver(p) == fpc[p] \in {"notified", "suppressed", "failed"}

PipelineErrs(p) ==
    errs[p] \cap {"contact", "existsPartial", "existsR2E", "parse", "create"}

FollowupErrs(p) == errs[p] \cap {"recheck", "shorten", "send"}

\* The row the pipeline of p is to write.
ExpectedRow(p) ==
    [first |-> data[p].first, last |-> data[p].last, phone |-> data[p].phone,
     hash |-> HashString(data[p].phone),
     contactID |-> ParseInt(contactID[p]).val]

----------------------------------------------------------------------------
\* C1: a submission whose hash is in the R2E table when the pipeline runs its
\* existence checks writes no Partial row and starts no follow-up, whatever
\* the Partial table holds.
C1_NoWriteWhenCompleted ==
    \A p \in Subs :
        truth[p].check =>
            /\ pc[p] # "done"
            /\ ExpectedRow(p) \notin Range(partial)
            /\ calls[p].sched = 0
            /\ fpc[p] = "none"

\* C2: a submission found absent from both tables, whose contact call and
\* write succeed, writes exactly one Partial row (its hash, first, last,
\* phone, contact id) and starts exactly one follow-up, which does not look
\* at the R2E table before FollowupDelay minutes have passed.
C2_FreshSubmissionWritesAndSchedules ==
    /\ \A p \in Subs :
        /\ ( /\ PipelineOver(p)
             /\ PipelineErrs(p) = {}
             /\ ~existsInPartial[p]
             /\ ~truth[p].check )
           => /\ pc[p] = "done"
              /\ calls[p].create = 1
              /\ calls[p].sched = 1
              /\ fpc[p] # "none"
              /\ ExpectedRow(p) \in Range(partial)
        /\ fpc[p] \notin {"none", "sleeping"} => slept[p] >= FollowupDelay
    /\ Len(partial) = Cardinality({p \in Subs : pc[p] = "done"})

C2_Witness ==
    \E p \in Subs :
        /\ pc[p] = "done"
        /\ ~existsInPartial[p] /\ ~truth[p].check
        /\ fpc[p] = "shorten"
        /\ Len(partial) = 1

\* C3: the same input submitted twice, the second existence check running
\* after the first write has completed, leaves one Partial row for the hash
\* and one follow-up: the second submission changes nothing in the store.
C3_IdempotentDedupe ==
    \A h \in Hashes :
        LET S == SubmissionsOf(h)
        IN  ( /\ Cardinality(S) = 2
              /\ h \notin raced
              /\ \A p \in S : PipelineOver(p) /\ PipelineErrs(p) = {}
              /\ \E p \in S : pc[p] = "done" )
            => /\ CountRows(h) = 1
               /\ Cardinality({p \in S : fpc[p] # "none"}) = 1
               /\ Cardinality({p \in S : calls[p].sched = 1}) = 1
               /\ \E q \in S : /\ pc[q] = "skipped"
                               /\ existsInPartial[q]
                               /\ calls[q].create = 0
                               /\ calls[q].sched = 0

C3_Witness ==
    \E h \in Hashes :
        /\ Cardinality(SubmissionsOf(h)) = 2
        /\ h \notin raced
        /\ \A p \in SubmissionsOf(h) : PipelineOver(p) /\ PipelineErrs(p) = {}
        /\ \E p \in SubmissionsOf(h) : pc[p] = "done"

\* C4 as claimed: in every reachable state the Partial table holds at most
\* one row per hash.
C4_AtMostOneRowPerHash == \A h \in Hashes : CountRows(h) <= 1

\* C4 as amended: the Partial table holds at most one row per hash unless
\* two submissions of that hash overlapped between existence check and
\* create (one ran its Partial check, finding no row, while another had
\* found no row and had not yet written).
C4_AtMostOneRowUnlessRaced ==
    \A h \in Hashes : h \notin raced => CountRows(h) <= 1

C4_Witness ==
    \E h \in Hashes :
        /\ h \notin raced
        /\ CountRows(h) = 1
        /\ \E p, q \in SubmissionsOf(h) : p # q /\ pc[p] = "done" /\ pc[q] = "skipped"

\* C5: when the hash is in the R2E table at the moment the follow-up makes its
\* re-check, the follow-up asks for no short link and sends no message.
C5_CompletedSuppressesFollowup ==
    \A p \in Subs :
        truth[p].recheck =>
            /\ calls[p].shorten = 0
            /\ calls[p].send = 0
            /\ shortLink[p] = NoLink
            /\ fpc[p] \in {"suppressed", "failed"}

C5_Witness ==
    \E p \in Subs :
        /\ ~truth[p].check
        /\ truth[p].recheck
        /\ fpc[p] = "suppressed"

\* C6: when the hash is absent from the R2E table at the re-check and the
\* shortener and the send succeed, the follow-up asks for one short link, for
\* the form URL with the query parameters first, last and id = hash, and
\* sends one message, to the contact id resolved by the pipeline, whose text
\* holds the first name and that short link.
C6_ReminderSent ==
    /\ \A p \in Subs :
        (FollowupOver(p) /\ ~truth[p].recheck /\ FollowupErrs(p) = {})
        => /\ fpc[p] = "notified"
           /\ calls[p].shorten = 1
           /\ calls[p].send = 1
           /\ \E i \in 1..Len(links) :
                /\ shortLink[p] = ShortURL(i)
                /\ links[i].base = FollowupFormURL
                /\ Range(links[i].query) =
                      { <<"first", QueryEscape(data[p].first)>>,
                        <<"last", QueryEscape(data[p].last)>>,
                        <<"id", HashString(data[p].phone)>> }
           /\ \E j \in 1..Len(sent) :
                /\ sent[j].to = contacts[NormalizePhone(data[p].phone)]
                /\ data[p].first \in Range(sent[j].text)
                /\ shortLink[p] \in Range(sent[j].text)
    /\ Len(links) = Cardinality({p \in Subs : shortLink[p] # NoLink})
    /\ Len(sent) = Cardinality({p \in Subs : fpc[p] = "notified"})

C6_Witness ==
    \E p \in Subs :
        /\ fpc[p] = "notified"
        /\ ~truth[p].recheck
        /\ Len(sent) = 1

\* C7 as claimed: no reminder is sent for a hash that is in the R2E table at
\* the moment the message is sent.
C7_NeverSentWhenCompleted ==
    \A p \in Subs : fpc[p] = "notified" => ~truth[p].send

\* C7 as amended: no reminder is sent for a hash that is in the R2E table at
\* the moment of the follow-up's re-check; a row that appears after the
\* re-check does not stop the message.
C7_NeverSentWhenCompletedAtRecheck ==
    \A p \in Subs :
        (calls[p].send > 0 \/ fpc[p] = "notified") => ~truth[p].recheck

C7_Witness ==
    \E p \in Subs :
        /\ fpc[p] = "notified"
        /\ ~truth[p].recheck
        /\ truth[p].send

\* C8: when GetOrCreateContact fails the pipeline stops: no existence check,
\* no write, no follow-up, and the contact call is not made again.
C8_ContactFailureAborts ==
    \A p \in Subs :
        "contact" \in errs[p] =>
            /\ pc[p] = "aborted"
            /\ calls[p].contact = 1
            /\ calls[p].exists = 0
            /\ calls[p].create = 0
            /\ calls[p].sched = 0
            /\ fpc[p] = "none"

C8_Witness ==
    \E p \in Subs : "contact" \in errs[p] /\ pc[p] = "aborted"

\* C9: on the write branch, when the contact id does not parse as an integer
\* or CreateRecord returns an error, no follow-up is started, no message is
\* sent for the submission, and the write is not made again.
C9_WriteFailureAborts ==
    \A p \in Subs :
        /\ "parse" \in errs[p] =>
              /\ pc[p] = "aborted"
              /\ calls[p].create = 0
              /\ calls[p].sched = 0
              /\ calls[p].send = 0
              /\ fpc[p] = "none"
        /\ "create" \in errs[p] =>
              /\ pc[p] = "aborted"
              /\ calls[p].create = 1
              /\ calls[p].sched = 0
              /\ calls[p].send = 0
              /\ fpc[p] = "none"

C9_Witness ==
    \E p \in Subs :
        /\ "parse" \in errs[p]
        /\ ~existsInPartial[p] /\ ~truth[p].check
        /\ pc[p] = "aborted"

\* C10: a facade failure inside a follow-up ends it: after a failed re-check
\* no short link is asked for and no message sent, after a failed shortening
\* no message is sent, a failed send is not repeated; the follow-up calls
\* each facade at most once and is started at most once.
C10_FollowupFailureTerminal ==
    \A p \in Subs :
        /\ calls[p].sched <= 1
        /\ calls[p].recheck <= 1
        /\ calls[p].shorten <= 1
        /\ calls[p].send <= 1
        /\ "recheck" \in errs[p] =>
              fpc[p] = "failed" /\ calls[p].shorten = 0 /\ calls[p].send = 0
        /\ "shorten" \in errs[p] =>
              fpc[p] = "failed" /\ calls[p].send = 0 /\ shortLink[p] = NoLink
        /\ "send" \in errs[p] => fpc[p] = "failed"
        /\ FollowupErrs(p) # {} =>
              \A j \in 1..Len(sent) : shortLink[p] \notin Range(sent[j].text)

C10_Witness ==
    \E p, q \in Subs :
        /\ "shorten" \in errs[p]
        /\ "send" \in errs[q]

----------------------------------------------------------------------------
\* The HTTP surface

\* The body of request p cannot be decoded, or lacks a required field.
InvalidRequest(p) ==
    \/ ~req[p].json
    \/ req[p].first = ""
    \/ req[p].last = ""
    \/ req[p].phone = <<>>

\* Nothing of the pipeline has run for request p.
PipelineUntouched(p) ==
    /\ calls[p] = ZeroCalls
    /\ errs[p] = {}
    /\ data[p] = ZeroData
    /\ contactID[p] = NoContact
    /\ fpc[p] = "none"

\* C11: a request whose body is not valid JSON, or whose first name, last
\* name or phone is empty, is answered with status 400 and one of the two
\* error texts; its pipeline is never started and no facade is called for it.
C11_InvalidRequestRejected ==
    \A p \in Subs :
        pc[p] # "idle" /\ InvalidRequest(p) =>
            /\ resp[p].code = 400
            /\ resp[p].text = IF req[p].json THEN "Missing required fields"
                                             ELSE "Invalid JSON format"
            /\ pc[p] = "rejected"
            /\ PipelineUntouched(p)

\* Both kinds of invalid request have been received and answered, next to a
\* request with no last name.
C11_Witness ==
    \E p, q \in Subs :
        /\ pc[p] = "rejected" /\ ~req[p].json
        /\ pc[q] = "rejected" /\ req[q].json /\ req[q].last = ""
        /\ resp[p].code = 400 /\ resp[q].code = 400

\* The answer to an accepted request in this revision of the handler.
ExpectedAnswer(p) ==
    [code |-> 200, text |-> "success",
     redirect |-> IF variant = "redirect"
                  THEN [base |-> "https://forms.democracyos.com/burlingtonvt-register",
                        query |-> << <<"first", QueryEscape(req[p].first)>>,
                                     <<"id", HashString(req[p].phone)>>,
                                     <<"last", QueryEscape(req[p].last)>> >>]
                  ELSE NoURL]

\* C12: a valid request is answered 200 "success" as soon as it is received,
\* the pipeline running as a separate task: the answer is there before the
\* pipeline has made its first call, and it is the same answer in every later
\* state, whether the pipeline writes, skips or fails.
C12_AnsweredWithoutWaiting ==
    \A p \in Subs :
        pc[p] # "idle" /\ ~InvalidRequest(p) => resp[p] = ExpectedAnswer(p)

\* Under the redirecting handler one accepted request has failed in the
\* pipeline and another has been skipped, both answered 200.
C12_Witness ==
    \E p, q \in Subs :
        /\ variant = "redirect"
        /\ errs[p] # {} /\ pc[p] = "aborted"
        /\ pc[q] = "skipped"
        /\ resp[p].code = 200 /\ resp[q].code = 200

----------------------------------------------------------------------------
\* The tables

\* What the pipeline and its follow-up tasks own.
pipelineVars ==
    <<partial, contacts, links, sent, pc, req, resp, data, contactID,
      existsInPartial, existsInR2E, fpc, slept, shortLink, calls, errs>>

\* C13: the R2E table is only read by the pipeline and the follow-up: every
\* step that changes it adds one fingerprint and leaves every request, every
\* follow-up task and the Partial table where they were, which makes it a step
\* of the external completion process.
C13_OnlyExternalWritesR2E ==
    [][r2e' # r2e =>
          /\ \E h \in Hashes : r2e' = r2e \cup {h}
          /\ pipelineVars' = pipelineVars]_vars

\* A submission has gone through write, follow-up and message, and another
\* through its checks, with the R2E table as the external process left it.
C13_Witness ==
    \E p, q \in Subs :
        /\ fpc[p] = "notified"
        /\ pc[q] = "skipped" /\ calls[q].exists = 2
        /\ r2e = {}

\* C15: two submissions of one fingerprint whose existence checks overlapped
\* (both found the fingerprint absent before either wrote) and whose create
\* calls both succeeded have each written a PartialRecord and each started a
\* follow-up: the table holds a row per submission.  Nothing excludes the
\* interleaving, which is reached.
C15_BothWriteAfterRace ==
    \A h \in raced : \A p, q \in SubmissionsOf(h) :
        /\ p # q
        /\ calls[p].create = 1 /\ calls[q].create = 1
        /\ "create" \notin errs[p] \cup errs[q]
        => /\ CountRows(h) >= 2
           /\ calls[p].sched = 1 /\ calls[q].sched = 1
           /\ fpc[p] # "none" /\ fpc[q] # "none"

\* The race has happened in the service revision: two rows for one
\* fingerprint, two follow-ups.
C15_Witness ==
    \E h \in raced : \E p, q \in SubmissionsOf(h) :
        /\ p # q
        /\ variant = "service"
        /\ pc[p] = "done" /\ pc[q] = "done"
        /\ CountRows(h) = 2
        /\ fpc[p] # "none" /\ fpc[q] # "none"

\* C16: a record is written and a follow-up started only by a submission
\* whose fingerprint was absent from both tables when it was checked.
\* A submission whose fingerprint is in the Partial table at its check, with
\* or without a row in the R2E table, writes nothing, starts no follow-up and
\* causes no short link and no message.
C16_WriteOnlyWhenAbsentFromBoth ==
    \A p \in Subs :
        /\ pc[p] = "done" \/ calls[p].sched > 0 \/ fpc[p] # "none" =>
               /\ ~truth[p].inPartial
               /\ ~truth[p].check
        /\ truth[p].inPartial =>
               /\ calls[p].create = 0 /\ calls[p].sched = 0
               /\ calls[p].shorten = 0 /\ calls[p].send = 0
               /\ fpc[p] = "none"
               /\ pc[p] \notin {"create", "done"}

\* The existence checks of p that returned an error.
CheckErrs(p) == errs[p] \cap {"existsPartial", "existsR2E"}

\* C17: a submission whose Partial or R2E existence check returned an error
\* is aborted: it attempts no write and starts no follow-up, so the failed
\* check is not taken for "absent"; the failed check was its last lookup, so
\* it is not retried.
C17_CheckFailureAborts ==
    \A p \in Subs :
        CheckErrs(p) # {} =>
            /\ pc[p] = "aborted"
            /\ calls[p].create = 0 /\ calls[p].sched = 0
            /\ fpc[p] = "none"
            /\ calls[p].shorten = 0 /\ calls[p].send = 0
            /\ calls[p].exists = IF "existsPartial" \in errs[p] THEN 1 ELSE 2
            /\ Cardinality(CheckErrs(p)) = 1

\* One submission was stopped by a failed Partial check and another by a
\* failed R2E check, with no row written.
C17_Witness ==
    \E p, q \in Subs :
        /\ "existsPartial" \in errs[p] /\ pc[p] = "aborted"
        /\ "existsR2E" \in errs[q] /\ pc[q] = "aborted"
        /\ partial = <<>>

\* Accepted submissions p and q carry two spellings of one phone number.
SameContactOtherSpelling(p, q) ==
    /\ pc[p] \notin {"idle", "rejected"} /\ pc[q] \notin {"idle", "rejected"}
    /\ req[p].phone # req[q].phone
    /\ NormalizePhone(req[p].phone) = NormalizePhone(req[q].phone)

\* The pipeline of p, the only submission of its spelling, has run to its
\* end without an error, its fingerprint not in the R2E table.
RanAlone(p) ==
    /\ PipelineOver(p) /\ PipelineErrs(p) = {}
    /\ ~truth[p].check
    /\ \A r \in Subs \ {p} : req[r].phone # req[p].phone

\* C20: two submissions whose phones differ only in formatting, so that the
\* contact directory resolves both to one contact, have different
\* fingerprints and are not deduplicated against each other: each writes its
\* own PartialRecord, both rows carrying the same contact id, and each starts
\* its own follow-up, whose message goes to that contact.
C20_SpellingsNotDeduplicated ==
    \A p, q \in Subs :
        SameContactOtherSpelling(p, q) =>
            /\ HashString(req[p].phone) # HashString(req[q].phone)
            /\ contactID[p] # NoContact /\ contactID[q] # NoContact =>
                   contactID[p] = contactID[q]
            /\ RanAlone(p) /\ RanAlone(q) =>
                   /\ pc[p] = "done" /\ pc[q] = "done"
                   /\ ExpectedRow(p) \in Range(partial)
                   /\ ExpectedRow(q) \in Range(partial)
                   /\ ExpectedRow(p).hash # ExpectedRow(q).hash
                   /\ ExpectedRow(p).contactID = ExpectedRow(q).contactID
                   /\ calls[p].sched = 1 /\ calls[q].sched = 1
                   /\ fpc[p] = "notified" =>
                          \E i \in 1..Len(sent) : sent[i].to = contactID[q]

\* Both spellings have been written and both follow-ups have sent their
\* message to the one contact.
C20_Witness ==
    \E p, q \in Subs :
        /\ SameContactOtherSpelling(p, q)
        /\ RanAlone(p) /\ RanAlone(q)
        /\ Len(partial) = 2 /\ partial[1].contactID = partial[2].contactID
        /\ partial[1].hash # partial[2].hash
        /\ fpc[p] = "notified" /\ fpc[q] = "notified"
        /\ Len(sent) = 2 /\ sent[1].to = sent[2].to

----------------------------------------------------------------------------
\* The life of a submission

\* The state of submission p in the terms of the specification.  A pipeline
\* or follow-up stopped by an error stays in the state it had reached.
Phase(p) ==
    CASE pc[p] \in {"idle", "rejected"} -> "NONE"
      [] pc[p] \in {"contact", "checkPartial", "checkR2E"} -> "NEW"
      [] pc[p] = "create" -> "CHECKED"
      [] pc[p] = "skipped" -> "SKIPPED"
      [] pc[p] = "aborted" ->
            IF errs[p] \cap {"parse", "create"} # {} THEN "CHECKED" ELSE "NEW"
      [] pc[p] = "done" /\ fpc[p] = "none" -> "RECORDED"
      [] pc[p] = "done" /\ fpc[p] \in {"sleeping", "shorten", "send", "failed"}
            -> "PENDING_FOLLOWUP"
      [] pc[p] = "done" /\ fpc[p] = "notified" -> "NOTIFIED"
      [] pc[p] = "done" /\ fpc[p] = "suppressed" -> "SUPPRESSED"

\* The arrows of the specification, with the two pairs of arrows that the
\* code takes without a step of another task in between: the branch on the
\* result of the last check (NEW, CHECKED, SKIPPED) and the go statement
\* after the write (CHECKED, RECORDED, PENDING_FOLLOWUP).
PhaseArrows ==
    {<<"NONE", "NEW">>, <<"NEW", "CHECKED">>, <<"CHECKED", "SKIPPED">>,
     <<"CHECKED", "RECORDED">>, <<"RECORDED", "PENDING_FOLLOWUP">>,
     <<"PENDING_FOLLOWUP", "NOTIFIED">>, <<"PENDING_FOLLOWUP", "SUPPRESSED">>,
     <<"NEW", "SKIPPED">>, <<"CHECKED", "PENDING_FOLLOWUP">>}

\* The Partial table gains a row of the fingerprint of p in this step.
WritesRow(p) ==
    /\ Len(partial') = Len(partial) + 1
    /\ partial'[Len(partial')].hash = phoneHash(p)

\* C18: every step moves a submission along an arrow of NEW -> CHECKED ->
\* {SKIPPED | RECORDED} -> PENDING_FOLLOWUP -> {NOTIFIED | SUPPRESSED} or
\* leaves it where it is; PENDING_FOLLOWUP is entered only by the step that
\* writes the PartialRecord of the fingerprint; NOTIFIED is entered only with
\* a row of the fingerprint in the table, the delay slept and a re-check made
\* while the fingerprint was absent from the R2E table; nothing of a
\* submission changes once it is SKIPPED, NOTIFIED or SUPPRESSED.
C18_PhasesInOrder ==
    [][\A p \in Subs :
          /\ Phase(p)' = Phase(p) \/ <<Phase(p), Phase(p)'>> \in PhaseArrows
          /\ Phase(p) # "PENDING_FOLLOWUP" /\ Phase(p)' = "PENDING_FOLLOWUP" =>
                 Phase(p) = "CHECKED" /\ WritesRow(p)
          /\ Phase(p) # "NOTIFIED" /\ Phase(p)' = "NOTIFIED" =>
                 /\ CountRows(phoneHash(p)) >= 1
                 /\ slept[p] >= FollowupDelay
                 /\ calls[p].recheck = 1 /\ ~truth[p].recheck
                 /\ "recheck" \notin errs[p]
          /\ Phase(p) \in {"SKIPPED", "NOTIFIED", "SUPPRESSED"} =>
                 /\ pc'[p] = pc[p] /\ fpc'[p] = fpc[p]
                 /\ calls'[p] = calls[p] /\ errs'[p] = errs[p]]_vars

\* One submission has gone the whole way to NOTIFIED and another has ended
\* in SKIPPED.
C18_Witness ==
    \E p, q \in Subs : Phase(p) = "NOTIFIED" /\ Phase(q) = "SKIPPED"

\* C19: a follow-up is started at most once per submission and makes each of
\* its calls at most once; it runs while the pipeline call that started it
\* has returned; and, the scheduler being fair to the follow-up goroutines
\* and to the clock, every started follow-up ends: message sent, suppressed,
\* or stopped on the error of a facade.
C19_FollowupRunsOnceAndEnds ==
    /\ [](\A p \in Subs :
            /\ calls[p].sched <= 1 /\ calls[p].recheck <= 1
            /\ calls[p].shorten <= 1 /\ calls[p].send <= 1
            /\ fpc[p] # "none" => pc[p] = "done" /\ calls[p].sched = 1)
    /\ \A p \in Subs : (calls[p].sched = 1) ~> FollowupOver(p)

\* Follow-ups have ended on an error and in a suppression, their pipelines
\* long returned.
C19_Witness ==
    \E p, q \in Subs :
        /\ fpc[p] = "failed" /\ fpc[q] = "suppressed"
        /\ calls[p].sched = 1 /\ calls[q].sched = 1

----------------------------------------------------------------------------
\* The OTP server

\* Requests for one phone number that passed the rate limit and reached the
\* provider.
Delivered(ph) == {v \in provider : v.to = ph}

\* C14: for every phone number, any two /send-otp requests that passed the
\* cooldown check and reached the provider passed it at least one cooldown
\* apart, in every sequence and interleaving of requests; every request that
\* did not pass was answered 429 with the whole seconds left of the cooldown
\* it ran into.
C14_OnePassPerWindow ==
    /\ \A ph \in OtpPhones : \A v, w \in Delivered(ph) :
           v.request # w.request =>
               \/ passedAt[v.request] - passedAt[w.request] >= Cooldown
               \/ passedAt[w.request] - passedAt[v.request] >= Cooldown
    /\ \A r \in OtpReqs :
           opc[r] = "limited" =>
               /\ oresp[r].code = 429
               /\ oresp[r].retryAfter \in 0..(CooldownMinutes * 60)

----------------------------------------------------------------------------
\* The TextMagic client

\* The contacts the directory holds for a phone.
ContactsOf(n) == {c \in directory : c.phone = n}

\* C21: GetOrCreateContact issues a create only when its search found no
\* contact; the directory never holds more than one contact for a normalized
\* phone, however many calls ran one after another or at the same time; and
\* every call that returned without an error, also one whose create was
\* rejected as a duplicate and that searched again, returned the id of that
\* one contact.
C21_OneContactPerPhone ==
    /\ \A n \in NormLookupPhones : Cardinality(ContactsOf(n)) <= 1
    /\ \A k \in Lookups :
           /\ lhist[k].issued => lhist[k].found = {}
           /\ lpc[k] = "returned" =>
                  \E c \in directory :
                      /\ c.phone = lphone[k]
                      /\ lresult[k] = FormatInt(c.id)
    /\ \A j, k \in Lookups :
           lpc[j] = "returned" /\ lpc[k] = "returned" /\ lphone[j] = lphone[k]
               => lresult[j] = lresult[k]

\* Two calls for two spellings of one number ran at the same time: one
\* created the contact, the create of the other was rejected and its second
\* search returned the same id, while the directory holds another contact.
C21_Witness ==
    \E j, k \in Lookups :
        /\ j # k
        /\ lpc[j] = "returned" /\ lpc[k] = "returned"
        /\ lphone[j] = lphone[k]
        /\ lhist[j].issued /\ ~lhist[j].rejected
        /\ lhist[k].rejected
        /\ lresult[j] = lresult[k]
        /\ lresult[k] # NoContact
        /\ \E c \in directory : c.phone # lphone[k]

----------------------------------------------------------------------------
\* The in-memory maps

\* Goroutines that are at a read and at a write of s.pending.
PendingReaders == {Verifier(v) : v \in {u \in Calls : vpc[u] = "read"}}
PendingWriters ==
    {Initiator(i) : i \in {j \in Calls : ipc[j] \in {"store", "cleanup"}}}
        \cup {Verifier(v) :
                 v \in {u \in Calls : vpc[u] \in {"drop", "consume"}}}

\* Every access of s.pending is made by a goroutine that holds s.mu, and
\* a goroutine that holds it for writing holds it alone.
PendingLocked ==
    /\ PendingReaders \subseteq mu.readers
    /\ \A g \in PendingWriters : mu.writer = g
    /\ mu.writer # NoGoroutine => mu.readers = {}

\* C22: every read and every write of the in-memory maps is made under a
\* lock: no /send-otp handler writes phoneRateLimits while another handler
\* is at a read or a write of it (and the process is never ended for such an
\* access), and every goroutine at an access of the pending map of the
\* VerificationService holds its mutex.
C22_MapAccessesLocked ==
    /\ ~crashed
    /\ \A r \in OtpReqs : opc[r] = "update" => ~MapRace(r)
    /\ PendingLocked

----------------------------------------------------------------------------
\* The VerificationService

\* VerifyCode v returns the data of the entry it read and deletes the key.
Consumes(v, ph) ==
    /\ vpc[v] = "consume" /\ vpc'[v] = "returned"
    /\ vreq[v].phone = ph

\* C23: an entry of the pending map stays there until a VerifyCode that
\* read it has succeeded or its own ExpiresAt has come: no step removes the
\* entry of a phone before that entry's ExpiresAt, other than the successful
\* VerifyCode of that entry; in particular the cleanup goroutine of an
\* earlier InitiateVerification does not remove a newer entry early.
C23_PendingUntilVerifiedOrExpired ==
    [][\A ph \in VerifyPhones :
          pending[ph] # NoPending /\ pending'[ph] = NoPending =>
              \/ vnow >= pending[ph].expiresAt
              \/ \E v \in Calls :
                     Consumes(v, ph) /\ verification[v] = pending[ph]]_vars

\* VerifyCode v returned data and no error.
Succeeded(v) == vpc[v] = "returned" /\ vret[v].err = ""

\* C24: the entry stored by one InitiateVerification is handed out at most
\* once, whatever the interleaving of the VerifyCode calls with an approved
\* code, and the delete of a successful VerifyCode removed the entry that
\* call had read (or found the key empty), never another entry of the phone.
C24_ConsumedAtMostOnce ==
    /\ \A i \in Calls :
           Cardinality({v \in Calls : Succeeded(v) /\ vret[v].data = i}) <= 1
    /\ \A v \in Calls :
           Succeeded(v) => vret[v].removed \in {NoPending, verification[v]}

\* VerifyCode v returns in this step.
Returns(v) == vpc[v] # "returned" /\ vpc'[v] = "returned"

\* C25: a failed operation leaves the pending map as it was.  An
\* InitiateVerification whose send failed changes nothing and no entry ever
\* carries its data; a VerifyCode that finds no entry returns
\* ErrVerificationExpired, changes nothing and has not called the provider
\* (nor has one that found an expired entry); a VerifyCode that returns
\* ErrInvalidCode or the provider's error changes nothing, so the entry it
\* read is still there for a later call if it was there before the step.
C25_FailuresLeavePendingUnchanged ==
    [][/\ \A i \in Calls :
             ipc'[i] = "failed" =>
                 /\ ipc[i] # "failed" => pending' = pending
                 /\ \A ph \in VerifyPhones : pending'[ph].data # i
       /\ \A v \in Calls :
             Returns(v) =>
                 /\ vret'[v].err = "ErrVerificationExpired" =>
                        /\ vret'[v].checks = 0
                        /\ verification'[v] = NoPending => pending' = pending
                 /\ vret'[v].err \in {"ErrInvalidCode", "error checking code"} =>
                        /\ vret'[v].checks = 1
                        /\ pending' = pending]_vars

\* A VerifyCode with a wrong code was refused for the entry of an
\* InitiateVerification, and another VerifyCode with the code the provider
\* texted read the same entry, found it in place and returned its data.
C25_Witness ==
    \E i, u, v \in Calls :
        /\ ipc[i] = "sleep"
        /\ vpc[u] = "returned" /\ vret[u].err = "ErrInvalidCode"
        /\ vreq[u].code # SentCode /\ vreq[u].phone = iphone[i]
        /\ verification[u].data = i
        /\ Succeeded(v) /\ vreq[v].phone = iphone[i]
        /\ vret[v].data = i
        /\ vret[v].removed = verification[u]
        /\ pending[iphone[i]] = NoPending

----------------------------------------------------------------------------
\* The cooldown of the OTP server

\* Requests for a phone number whose verification the provider accepted, or
\* has still to answer.
SentOrSending(ph) ==
    {r \in OtpReqs : oreq[r].phoneNumber = ph /\ opc[r] \in {"send", "sent"}}

\* C26: the cooldown of a phone starts only with a verification that was
\* sent: a phone has a rate-limit timestamp only if the provider accepted a
\* request for it (or has still to answer one), and a request answered 429
\* ran into the cooldown of another request of that kind; a request answered
\* 500 leaves no timestamp behind and causes no 429.
C26_CooldownOnlyAfterSend ==
    /\ \A ph \in OtpPhones :
           phoneRateLimits[ph] # Never => SentOrSending(ph) # {}
    /\ \A q \in OtpReqs :
           opc[q] = "limited" =>
               SentOrSending(oreq[q].phoneNumber) \ {q} # {}

============================================================================
